---- MODULE Spec2Model ----
(***************************************************************************)
(* A model of three numerical components of the sapiens repository:        *)
(*   - VitHead              seg/mmseg/models/decode_heads/vit_head.py      *)
(*   - CosineSimilarityLoss seg/mmseg/models/losses/cosine_similarity_loss *)
(*   - MILANViT / MILAN     pretrain/mmpretrain/models/selfsup/milan.py    *)
(* Each component has its own specification (SpecHead, SpecLoss,           *)
(* SpecMilan); the variables of the other components stay at their idle    *)
(* values.  Tensors are modelled by their shape and by small exact values. *)
(***************************************************************************)
EXTENDS Integers, Sequences, FiniteSets, TLC

VARIABLES head, seg, lossCall, lossOut, vitCall, vitOut

vars == <<head, seg, lossCall, lossOut, vitCall, vitOut>>

(***************************************************************************)
(* Generic helpers                                                         *)
(***************************************************************************)
\* All sequences over S of length 0..n.
SeqsUpTo(S, n) == UNION {[1..k -> S] : k \in 0..n}

Max(a, b) == IF a >= b THEN a ELSE b

RECURSIVE Pow2(_)
Pow2(n) == IF n = 0 THEN 1 ELSE 2 * Pow2(n - 1)

(***************************************************************************)
(* VitHead                                                                 *)
(***************************************************************************)
\* Longest layer-size / kernel-size list that is enumerated.
MaxLayers == 2

\* Optional[Sequence[int]]: None, or a (possibly empty) sequence.
None == [some |-> FALSE, v |-> <<>>]
Some(s) == [some |-> TRUE, v |-> s]

\* Python truthiness of an Optional sequence: None and () are falsy.
Truthy(o) == o.some /\ Len(o.v) > 0

\* Defaults of VitHead.__init__.
DefaultDeconvOutChannels == Some(<<256, 256, 256>>)
DefaultDeconvKernelSizes == Some(<<4, 4, 4>>)

ChannelSizes == {1, 2}
DeconvKernels == {2, 3, 4, 5}
ConvKernels == {1, 2, 3, 4}

OptSeqs(S) == {None} \cup {Some(s) : s \in SeqsUpTo(S, MaxLayers)}

\* One module of an nn.Sequential.
Module(type, cin, cout, k, stride, padding, output_padding) ==
    [type |-> type, in_channels |-> cin, out_channels |-> cout,
     kernel_size |-> k, stride |-> stride, padding |-> padding,
     output_padding |-> output_padding]

InstanceNorm2d(c) == Module("InstanceNorm2d", c, c, 0, 0, 0, 0)
SiLU(c) == Module("SiLU", c, c, 0, 0, 0, 0)

\* padding and output_padding chosen for a deconv kernel size.
DeconvPaddingBad(k) ==
    CASE k = 4 -> [ok |-> TRUE, padding |-> 1, output_padding |-> 0]
      [] k = 3 -> [ok |-> TRUE, padding |-> 1, output_padding |-> 0]
      [] k = 2 -> [ok |-> TRUE, padding |-> 0, output_padding |-> 0]
      [] OTHER -> [ok |-> FALSE, padding |-> 0, output_padding |-> 0]

DeconvPadding(k) ==
    CASE k = 4 -> [ok |-> TRUE, padding |-> 1, output_padding |-> 0]
      [] k = 3 -> [ok |-> TRUE, padding |-> 1, output_padding |-> 1]
      [] k = 2 -> [ok |-> TRUE, padding |-> 0, output_padding |-> 0]
      [] OTHER -> [ok |-> FALSE, padding |-> 0, output_padding |-> 0]

\* VitHead._make_deconv_layers: the loop over zip(out_channels, kernels),
\* from layer i on with the running in_channels.
RECURSIVE MakeDeconvFrom(_, _, _, _)
MakeDeconvFrom(i, cin, outs, ks) ==
    IF i > Len(outs) \/ i > Len(ks)
    THEN [ok |-> TRUE, layers |-> <<>>]
    ELSE LET p == DeconvPadding(ks[i])
         IN IF ~p.ok
            THEN [ok |-> FALSE, layers |-> <<>>]
            ELSE LET rest == MakeDeconvFrom(i + 1, outs[i], outs, ks)
                 IN [ok |-> rest.ok,
                     layers |-> <<Module("deconv", cin, outs[i], ks[i], 2,
                                         p.padding, p.output_padding),
                                  InstanceNorm2d(outs[i]),
                                  SiLU(outs[i])>> \o rest.layers]

MakeDeconvLayers(cin, outs, ks) == MakeDeconvFrom(1, cin, outs, ks)

\* padding chosen for a conv kernel size.
ConvPaddingHalf(k) == k \div 2

ConvPadding(k) == (k - 1) \div 2

\* VitHead._make_conv_layers.
RECURSIVE MakeConvFrom(_, _, _, _)
MakeConvFrom(i, cin, outs, ks) ==
    IF i > Len(outs) \/ i > Len(ks)
    THEN <<>>
    ELSE <<Module("Conv2d", cin, outs[i], ks[i], 1, ConvPadding(ks[i]), 0),
           InstanceNorm2d(outs[i]),
           SiLU(outs[i])>> \o MakeConvFrom(i + 1, outs[i], outs, ks)

MakeConvLayers(cin, outs, ks) == MakeConvFrom(1, cin, outs, ks)

\* The consistency check of a stage: the branch is entered only for a
\* truthy layer-size list, and then the kernel-size list must be a sequence
\* of the same length.
StageMismatchLenOnly(outs, ks) ==
    Truthy(outs) /\ ks.some /\ Len(outs.v) # Len(ks.v)

StageMismatch(outs, ks) ==
    Truthy(outs) /\ (~ks.some \/ Len(outs.v) # Len(ks.v))

HeadArgs(cin, doc, dks, coc, cks) ==
    [in_channels |-> cin, deconv_out_channels |-> doc,
     deconv_kernel_sizes |-> dks, conv_out_channels |-> coc,
     conv_kernel_sizes |-> cks]

Raised(a, msg) ==
    [state |-> "raised", exc |-> "ValueError", msg |-> msg, args |-> a,
     deconv_layers |-> <<>>, conv_layers |-> <<>>]

Built(a, dl, cl) ==
    [state |-> "built", exc |-> "", msg |-> "", args |-> a,
     deconv_layers |-> dl, conv_layers |-> cl]

\* VitHead.__init__ with the conv stage fed by the head's in_channels.
VitHeadInitUnchained(a) ==
    LET doc == a.deconv_out_channels
        dks == a.deconv_kernel_sizes
        coc == a.conv_out_channels
        cks == a.conv_kernel_sizes
    IN IF StageMismatch(doc, dks)
       THEN Raised(a, "deconv_mismatch")
       ELSE LET d == IF Truthy(doc)
                     THEN MakeDeconvLayers(a.in_channels, doc.v, dks.v)
                     ELSE [ok |-> TRUE, layers |-> <<>>]
                cin == a.in_channels
            IN IF ~d.ok
               THEN Raised(a, "deconv_kernel")
               ELSE IF StageMismatch(coc, cks)
                    THEN Raised(a, "conv_mismatch")
                    ELSE Built(a, d.layers,
                               IF Truthy(coc)
                               THEN MakeConvLayers(cin, coc.v, cks.v)
                               ELSE <<>>)

\* VitHead.__init__ after super().__init__: nn.Identity() is the empty
\* sequence of modules.
VitHeadInit(a) ==
    LET doc == a.deconv_out_channels
        dks == a.deconv_kernel_sizes
        coc == a.conv_out_channels
        cks == a.conv_kernel_sizes
    IN IF StageMismatch(doc, dks)
       THEN Raised(a, "deconv_mismatch")
       ELSE LET d == IF Truthy(doc)
                     THEN MakeDeconvLayers(a.in_channels, doc.v, dks.v)
                     ELSE [ok |-> TRUE, layers |-> <<>>]
                cin == IF Truthy(doc) THEN doc.v[Len(doc.v)]
                       ELSE a.in_channels
            IN IF ~d.ok
               THEN Raised(a, "deconv_kernel")
               ELSE IF StageMismatch(coc, cks)
                    THEN Raised(a, "conv_mismatch")
                    ELSE Built(a, d.layers,
                               IF Truthy(coc)
                               THEN MakeConvLayers(cin, coc.v, cks.v)
                               ELSE <<>>)

\* Spatial output size of one module for a square input of side n
\* (torch ConvTranspose2d / Conv2d with dilation 1; norm and activation
\* keep the size).
ModuleOut(m, n) ==
    CASE m.type = "deconv" ->
           (n - 1) * m.stride - 2 * m.padding + m.kernel_size
             + m.output_padding
      [] m.type = "Conv2d" ->
           ((n + 2 * m.padding - m.kernel_size) \div m.stride) + 1
      [] OTHER -> n

\* A Conv2d whose kernel is larger than its padded input raises
\* RuntimeError instead of producing an output.
ModuleRaises(m, n) ==
    m.type = "Conv2d" /\ n + 2 * m.padding < m.kernel_size

RECURSIVE Sequential(_, _)
Sequential(layers, n) ==
    IF layers = <<>> THEN n
    ELSE Sequential(Tail(layers), ModuleOut(Head(layers), n))

RECURSIVE SequentialRaises(_, _)
SequentialRaises(layers, n) ==
    IF layers = <<>> THEN FALSE
    ELSE \/ ModuleRaises(Head(layers), n)
         \/ SequentialRaises(Tail(layers), ModuleOut(Head(layers), n))

\* VitHead.forward up to the input of cls_seg: deconv is the side after
\* deconv_layers, conv the side after conv_layers (0 when a layer raised).
HeadForward(h, n) ==
    LET x1 == Sequential(h.deconv_layers, n)
        r1 == SequentialRaises(h.deconv_layers, n)
        r2 == r1 \/ SequentialRaises(h.conv_layers, x1)
    IN [done |-> TRUE, raised |-> r2, input |-> n,
        deconv |-> IF r1 THEN 0 ELSE x1,
        conv |-> IF r2 THEN 0 ELSE Sequential(h.conv_layers, x1)]

InputSizes == {1, 2, 3, 64}

HeadNew == [state |-> "new", exc |-> "", msg |-> "",
            args |-> HeadArgs(0, None, None, None, None),
            deconv_layers |-> <<>>, conv_layers |-> <<>>]
SegIdle == [done |-> FALSE, raised |-> FALSE, input |-> 0, deconv |-> 0,
            conv |-> 0]

\* The constructor calls that are enumerated: every deconv pair with a few
\* conv pairs, and every conv pair with a few deconv pairs.
InChannels == {3, 7}

ConvPairSamples ==
    {<<None, None>>, <<Some(<<2>>), Some(<<3>>)>>, <<Some(<<2>>), None>>,
     <<None, Some(<<3>>)>>}

DeconvPairSamples ==
    {<<None, None>>, <<None, DefaultDeconvKernelSizes>>,
     <<DefaultDeconvOutChannels, DefaultDeconvKernelSizes>>,
     <<Some(<<1, 2>>), Some(<<4, 3>>)>>, <<Some(<<1>>), None>>,
     <<Some(<<1>>), Some(<<5>>)>>}

DeconvPairs ==
    (OptSeqs(ChannelSizes) \cup {DefaultDeconvOutChannels})
      \X (OptSeqs(DeconvKernels) \cup {DefaultDeconvKernelSizes})

ConvPairs == OptSeqs(ChannelSizes) \X OptSeqs(ConvKernels)

HeadArgSet ==
    {HeadArgs(cin, d[1], d[2], c[1], c[2]) :
        cin \in InChannels, d \in DeconvPairs, c \in ConvPairSamples}
    \cup
    {HeadArgs(cin, d[1], d[2], c[1], c[2]) :
        cin \in InChannels, d \in DeconvPairSamples, c \in ConvPairs}

\* head = VitHead(**a)
Construct ==
    /\ head.state = "new"
    /\ \E a \in HeadArgSet : head' = VitHeadInit(a)
    /\ UNCHANGED <<seg, lossCall, lossOut, vitCall, vitOut>>

\* head.forward(inputs) on a constructed head
Forward ==
    /\ head.state = "built"
    /\ \E n \in InputSizes : seg' = HeadForward(head, n)
    /\ UNCHANGED <<head, lossCall, lossOut, vitCall, vitOut>>

LossIdle == [active |-> FALSE]
VitIdle == [active |-> FALSE]

InitHead ==
    /\ head = HeadNew
    /\ seg = SegIdle
    /\ lossCall = LossIdle
    /\ lossOut = LossIdle
    /\ vitCall = VitIdle
    /\ vitOut = VitIdle

NextHead == Construct \/ Forward

SpecHead == InitHead /\ [][NextHead]_vars

(***************************************************************************)
(* VitHead: properties                                                     *)
(***************************************************************************)
\* Largest input side for which the size formula of a layer is evaluated.
MaxIn == 8

OptLen(o) == IF o.some THEN Len(o.v) ELSE 0
NonEmpty(o) == o.some /\ o.v # <<>>
DiffersFrom(outs, ks) == ~ks.some \/ Len(ks.v) # Len(outs.v)
RaisedValueError == head.state = "raised" /\ head.exc = "ValueError"

\* C1 (as stated): constructing a VitHead raises ValueError whenever the
\* layer-size list and the kernel-size list of a stage differ in length,
\* an empty or None layer-size list with a non-empty kernel-size list
\* included.
C1_RaisesOnAnyLengthDifference ==
    head.state # "new" =>
        /\ OptLen(head.args.deconv_out_channels)
             # OptLen(head.args.deconv_kernel_sizes) => RaisedValueError
        /\ OptLen(head.args.conv_out_channels)
             # OptLen(head.args.conv_kernel_sizes) => RaisedValueError

\* C1 (amended): ValueError is raised whenever a stage's layer-size list is
\* non-empty and its kernel-size list is None or of another length; a
\* stage whose layer-size list is None or empty is never checked and
\* becomes the identity, whatever its kernel-size list is; the mismatch
\* error is raised for no other reason.
C1_RaisesOnMismatchOfNonEmptyStage ==
    head.state # "new" =>
      LET a == head.args
          dBad == NonEmpty(a.deconv_out_channels)
                    /\ DiffersFrom(a.deconv_out_channels,
                                   a.deconv_kernel_sizes)
          cBad == NonEmpty(a.conv_out_channels)
                    /\ DiffersFrom(a.conv_out_channels, a.conv_kernel_sizes)
      IN /\ dBad => RaisedValueError /\ head.msg = "deconv_mismatch"
         /\ cBad => RaisedValueError
         /\ (head.msg = "deconv_mismatch") => dBad
         /\ (head.msg = "conv_mismatch") => cBad
         /\ (~NonEmpty(a.deconv_out_channels)
               /\ ~NonEmpty(a.conv_out_channels))
              => /\ head.state = "built"
                 /\ head.deconv_layers = <<>>
                 /\ head.conv_layers = <<>>
         /\ (~NonEmpty(a.deconv_out_channels) /\ head.state = "built")
              => head.deconv_layers = <<>>
         /\ (~NonEmpty(a.conv_out_channels) /\ head.state = "built")
              => head.conv_layers = <<>>

\* C1 witness: the deconv stage was accepted and the conv stage, with two
\* sequences of different lengths, raised.
C1_Witness ==
    /\ RaisedValueError
    /\ head.msg = "conv_mismatch"
    /\ NonEmpty(head.args.deconv_out_channels)
    /\ head.args.conv_kernel_sizes.some
    /\ Len(head.args.conv_kernel_sizes.v) > Len(head.args.conv_out_channels.v)

DeconvModules(h) ==
    {i \in 1..Len(h.deconv_layers) : h.deconv_layers[i].type = "deconv"}

\* C10: every deconvolution layer of a constructed head has a kernel size
\* in {2, 3, 4} and stride 2, and its transposed-convolution output size
\* (in - 1) * 2 - 2 * padding + k + output_padding is 2 * in; a forward
\* pass through a stack of n deconv layers multiplies the side by 2^n.
C10_DeconvDoublesSize ==
    /\ head.state = "built" =>
         \A i \in DeconvModules(head) :
            LET m == head.deconv_layers[i]
            IN /\ m.kernel_size \in {2, 3, 4}
               /\ m.stride = 2
               /\ \A n \in 1..MaxIn :
                     /\ (n - 1) * 2 - 2 * m.padding + m.kernel_size
                          + m.output_padding = 2 * n
                     /\ ModuleOut(m, n) = 2 * n
    /\ seg.done =>
         seg.deconv = seg.input * Pow2(Cardinality(DeconvModules(head)))

\* C10 witness: the default stack of three deconv layers took 64 to 512.
C10_Witness ==
    /\ seg.done
    /\ seg.input = 64
    /\ seg.deconv = 512
    /\ Cardinality(DeconvModules(head)) = 3
    /\ head.args.deconv_kernel_sizes = DefaultDeconvKernelSizes

ConvModules(h) ==
    {i \in 1..Len(h.conv_layers) : h.conv_layers[i].type = "Conv2d"}

EvenConvModules(h) ==
    {i \in ConvModules(h) : h.conv_layers[i].kernel_size % 2 = 0}

\* C11 (as stated): every convolution layer of a constructed head, whatever
\* its kernel size k >= 1, has stride 1 and padding (k - 1) // 2 and an
\* output size in + 2 * padding - k + 1 equal to in, so a completed forward
\* pass leaves conv_layers with the side deconv_layers produced.
C11_ConvPreservesSize ==
    /\ head.state = "built" =>
         \A i \in ConvModules(head) :
            LET m == head.conv_layers[i]
            IN /\ m.stride = 1
               /\ m.padding = (m.kernel_size - 1) \div 2
               /\ \A n \in 1..MaxIn :
                     n + 2 * m.padding - m.kernel_size + 1 = n
    /\ (seg.done /\ ~seg.raised) => seg.conv = seg.deconv

\* C11 (amended): every convolution layer of a constructed head has stride
\* 1 and padding (k - 1) // 2; its output size in + 2 * padding - k + 1 is
\* in for an odd kernel size and in - 1 for an even one; a completed
\* forward pass leaves conv_layers with the side deconv_layers produced
\* minus the number of even-kernel convolution layers, hence with that
\* same side when every conv kernel size is odd.
C11_ConvPreservesSizeForOddKernels ==
    /\ head.state = "built" =>
         \A i \in ConvModules(head) :
            LET m == head.conv_layers[i]
                k == m.kernel_size
            IN /\ k >= 1
               /\ m.stride = 1
               /\ m.padding = (k - 1) \div 2
               /\ \A n \in 1..MaxIn :
                     LET out == n + 2 * m.padding - k + 1
                     IN /\ (k % 2 = 1) => out = n /\ ~ModuleRaises(m, n)
                        /\ (k % 2 = 0) => out = n - 1
                        /\ ~ModuleRaises(m, n) => ModuleOut(m, n) = out
    /\ (seg.done /\ ~seg.raised) =>
         /\ seg.conv = seg.deconv - Cardinality(EvenConvModules(head))
         /\ (EvenConvModules(head) = {}) => seg.conv = seg.deconv

\* C11 witness: after the default deconv stack took 64 to 512, a conv stage
\* with kernel sizes (3, 2) kept the side in its first layer and lost one
\* pixel in its second.
C11_Witness ==
    /\ seg.done
    /\ ~seg.raised
    /\ head.args.conv_kernel_sizes = Some(<<3, 2>>)
    /\ head.args.deconv_kernel_sizes = DefaultDeconvKernelSizes
    /\ seg.input = 64
    /\ seg.deconv = 512
    /\ seg.conv = 511

\* The sizes of a stage that is built: () for a None or empty list.
StageSizes(o) == IF Truthy(o) THEN o.v ELSE <<>>

\* layers is (type, InstanceNorm2d, SiLU) repeated once per size of outs,
\* the first layer taking cin and each later one the size before it.
StackChained(layers, type, cin, outs, ks) ==
    /\ Len(layers) = 3 * Len(outs)
    /\ \A i \in 1..Len(outs) :
          LET m == layers[3 * i - 2]
          IN /\ m.type = type
             /\ m.in_channels = (IF i = 1 THEN cin ELSE outs[i - 1])
             /\ m.out_channels = outs[i]
             /\ m.kernel_size = ks[i]
             /\ layers[3 * i - 1].type = "InstanceNorm2d"
             /\ layers[3 * i - 1].in_channels = outs[i]
             /\ layers[3 * i].type = "SiLU"

\* C12: in a constructed head the first deconv layer takes the head's
\* in_channels, each later layer of a stack takes the out_channels of the
\* layer before it, the first conv layer takes the last deconv out_channels
\* (the head's in_channels when there is no deconv stage), and a list of n
\* sizes yields exactly 3 * n modules in the order (convolution or
\* deconvolution, InstanceNorm2d, SiLU) repeated n times.
C12_ChannelsChained ==
    head.state = "built" =>
      LET a == head.args
          dout == StageSizes(a.deconv_out_channels)
          cout == StageSizes(a.conv_out_channels)
          mid == IF dout = <<>> THEN a.in_channels ELSE dout[Len(dout)]
      IN /\ StackChained(head.deconv_layers, "deconv", a.in_channels, dout,
                         a.deconv_kernel_sizes.v)
         /\ StackChained(head.conv_layers, "Conv2d", mid, cout,
                         a.conv_kernel_sizes.v)

\* C12 witness: a head with two deconv layers of different sizes and two
\* conv layers of different sizes, whose first conv layer takes the last
\* deconv size and not the head's in_channels.
C12_Witness ==
    /\ head.state = "built"
    /\ head.args.deconv_out_channels = Some(<<1, 2>>)
    /\ head.args.conv_out_channels = Some(<<2, 1>>)
    /\ Len(head.deconv_layers) = 6
    /\ Len(head.conv_layers) = 6
    /\ head.deconv_layers[1].in_channels = head.args.in_channels
    /\ head.deconv_layers[4].in_channels = 1
    /\ head.conv_layers[1].in_channels = 2
    /\ head.conv_layers[1].in_channels # head.args.in_channels
    /\ head.conv_layers[4].in_channels = 2
    /\ head.conv_layers[4].out_channels = 1

(***************************************************************************)
(* Floating-point values: exact rationals n/d (d > 0, lowest terms) and    *)
(* the IEEE specials NaN, +Inf, -Inf.  Rounding is not modelled; the       *)
(* propagation of the specials is.                                         *)
(***************************************************************************)
Abs(x) == IF x < 0 THEN -x ELSE x
Sign(x) == IF x < 0 THEN -1 ELSE IF x = 0 THEN 0 ELSE 1

RECURSIVE Gcd(_, _)
Gcd(a, b) == IF b = 0 THEN a ELSE Gcd(b, a % b)

NaN == [k |-> "nan", n |-> 0, d |-> 1]
PInf == [k |-> "inf", n |-> 1, d |-> 1]
NInf == [k |-> "inf", n |-> -1, d |-> 1]
Inf(s) == IF s < 0 THEN NInf ELSE PInf

\* The rational n/d, d # 0, in lowest terms.
Rat(n, d) ==
    LET g == Gcd(Abs(n), Abs(d))
        s == IF d < 0 THEN -1 ELSE 1
    IN [k |-> "fin", n |-> (s * n) \div g, d |-> (s * d) \div g]

Num(i) == Rat(i, 1)

IsNaN(a) == a.k = "nan"
IsInf(a) == a.k = "inf"
IsFinite(a) == a.k = "fin"

FNeg(a) == IF IsNaN(a) THEN NaN
           ELSE IF IsInf(a) THEN Inf(-a.n)
           ELSE Rat(-a.n, a.d)

FAdd(a, b) ==
    IF IsNaN(a) \/ IsNaN(b) THEN NaN
    ELSE IF IsInf(a) /\ IsInf(b) THEN (IF a.n = b.n THEN a ELSE NaN)
    ELSE IF IsInf(a) THEN a
    ELSE IF IsInf(b) THEN b
    ELSE Rat(a.n * b.d + b.n * a.d, a.d * b.d)

FSub(a, b) == FAdd(a, FNeg(b))

FMul(a, b) ==
    IF IsNaN(a) \/ IsNaN(b) THEN NaN
    ELSE IF IsInf(a) \/ IsInf(b)
         THEN (IF a.n = 0 \/ b.n = 0 THEN NaN
               ELSE Inf(Sign(a.n) * Sign(b.n)))
    ELSE Rat(a.n * b.n, a.d * b.d)

FDiv(a, b) ==
    IF IsNaN(a) \/ IsNaN(b) THEN NaN
    ELSE IF IsInf(a) /\ IsInf(b) THEN NaN
    ELSE IF IsInf(a) THEN Inf(a.n * (IF b.n < 0 THEN -1 ELSE 1))
    ELSE IF IsInf(b) THEN Num(0)
    ELSE IF b.n = 0 THEN (IF a.n = 0 THEN NaN ELSE Inf(Sign(a.n)))
    ELSE Rat(a.n * b.d, a.d * b.n)

\* a > b and a == b; every comparison with NaN is false.
FGt(a, b) ==
    IF IsNaN(a) \/ IsNaN(b) THEN FALSE
    ELSE IF IsInf(a) THEN a.n = 1 /\ b # PInf
    ELSE IF IsInf(b) THEN b.n = -1
    ELSE a.n * b.d > b.n * a.d

FEq(a, b) == ~IsNaN(a) /\ ~IsNaN(b) /\ a = b

\* torch.clamp(min=m): NaN is propagated.
ClampMin(a, m) == IF IsNaN(a) THEN NaN ELSE IF FGt(m, a) THEN m ELSE a

\* Integer square root by bisection on lo..hi (lo * lo <= n < (hi+1)^2).
RECURSIVE ISqrtIn(_, _, _)
ISqrtIn(n, lo, hi) ==
    IF lo >= hi THEN lo
    ELSE LET mid == (lo + hi + 1) \div 2
         IN IF mid * mid <= n THEN ISqrtIn(n, mid, hi)
            ELSE ISqrtIn(n, lo, mid - 1)

ISqrt(n) == ISqrtIn(n, 0, n)

\* Square root of a value whose root is rational (the enumerated inputs
\* are chosen so).
FSqrt(a) ==
    IF IsNaN(a) THEN NaN
    ELSE IF IsInf(a) THEN (IF a.n = 1 THEN PInf ELSE NaN)
    ELSE IF a.n < 0 THEN NaN
    ELSE Rat(ISqrt(a.n), ISqrt(a.d))

\* Sum of f[i] over the sequence of indices s, left to right.
RECURSIVE FSumSeq(_, _)
FSumSeq(f, s) ==
    IF s = <<>> THEN Num(0) ELSE FAdd(f[Head(s)], FSumSeq(f, Tail(s)))

(***************************************************************************)
(* CosineSimilarityLoss                                                    *)
(***************************************************************************)
\* Largest width W of an enumerated B x C x H x W tensor.
MaxW == 2

\* A tensor: its shape <<B, C, H, W>> and its elements in row-major order.
Tensor(shape, v) == [shape |-> shape, v |-> v]
Numel(shape) == shape[1] * shape[2] * shape[3] * shape[4]
\* Number of positions (b, h, w) and the element at position p, channel c.
Pixels(shape) == shape[1] * shape[3] * shape[4]
Elt(shape, p, c) ==
    LET hw == shape[3] * shape[4]
    IN (((p - 1) \div hw) * shape[2] + (c - 1)) * hw + ((p - 1) % hw) + 1

\* tensor.sum()
SumAll(v) == FSumSeq(v, [i \in 1..Len(v) |-> i])

\* pred.shape == target.shape
SameShape(a, b) == a = b

\* (target > eps).float()[:, 0, :, :].unsqueeze(1)
DeriveMask(target, eps) ==
    [p \in 1..Pixels(target.shape) |->
        IF FGt(target.v[Elt(target.shape, p, 1)], eps) THEN Num(1)
        ELSE Num(0)]

\* input.norm(2, dim=1) at position p
L2Norm(t, p) ==
    FSqrt(FSumSeq([c \in 1..t.shape[2] |->
                      FMul(t.v[Elt(t.shape, p, c)], t.v[Elt(t.shape, p, c)])],
                  [c \in 1..t.shape[2] |-> c]))

\* F.normalize(t, p=2, dim=1, eps=thres): t / norm.clamp_min(thres)
Normalize(t, thres) ==
    [p \in 1..Pixels(t.shape) |->
        [c \in 1..t.shape[2] |->
            FDiv(t.v[Elt(t.shape, p, c)], ClampMin(L2Norm(t, p), thres))]]

\* (pred_norm * target_norm).sum(dim=1, keepdim=True)
CosSim(pn, tn) ==
    [p \in 1..Len(pn) |->
        FSumSeq([c \in 1..Len(pn[p]) |-> FMul(pn[p][c], tn[p][c])],
                [c \in 1..Len(pn[p]) |-> c])]

\* (1 - cos_sim) * valid_mask
PixelLoss(cos, mask) ==
    [p \in 1..Len(cos) |-> FMul(FSub(Num(1), cos[p]), mask[p])]

Scalar(x) == [kind |-> "scalar", s |-> x, t |-> <<>>]
PerPixel(t) == [kind |-> "tensor", s |-> Num(0), t |-> t]
NoValue == [kind |-> "none", s |-> Num(0), t |-> <<>>]

\* The reduction of lines 41-48.
ReduceMean(loss, mask) ==
    Scalar(FDiv(SumAll(loss), ClampMin(SumAll(mask), Num(1))))

ReduceSum(loss) == Scalar(SumAll(loss))

\* mmseg's weight_reduce_loss(loss, weight=None, reduction, avg_factor=None):
\* reduce_loss(loss, reduction); a 0-dim loss is its own mean and sum.
WeightReduceLoss(x, reduction) ==
    IF x.kind = "scalar" THEN x
    ELSE CASE reduction = "mean" ->
                Scalar(FDiv(SumAll(x.t), Num(Len(x.t))))
           [] reduction = "sum" -> Scalar(SumAll(x.t))
           [] OTHER -> x

Scale(x, w) ==
    IF x.kind = "scalar" THEN Scalar(FMul(x.s, w))
    ELSE PerPixel([p \in 1..Len(x.t) |-> FMul(x.t[p], w)])

\* torch.nan_to_num(loss, nan=0, posinf=0, neginf=0)
NanToNum1(a) == IF IsFinite(a) THEN a ELSE Num(0)
NanToNum(x) ==
    IF x.kind = "scalar" THEN Scalar(NanToNum1(x.s))
    ELSE PerPixel([p \in 1..Len(x.t) |-> NanToNum1(x.t[p])])

\* Defaults of CosineSimilarityLoss.__init__.
Eps == Num(-100)
ThresEps == Rat(1, 1000000)
LossWeight == Num(1)

LossArgs(pred, target, valid_mask, reduction, reduction_override) ==
    [active |-> TRUE, pred |-> pred, target |-> target,
     valid_mask |-> valid_mask, reduction |-> reduction,
     reduction_override |-> reduction_override]

\* What a call of forward leaves behind: the exception raised (if any), the
\* path taken, the mask and the values computed so far, and the value
\* returned.
LossResult(raised, msg, path, mask, pixel, reduced, value) ==
    [active |-> TRUE, raised |-> raised, msg |-> msg, path |-> path,
     mask |-> mask, pixel_loss |-> pixel, reduced |-> reduced,
     value |-> value]

\* forward with the steps in another order: the mask is derived and the
\* empty-mask return taken before the shapes are compared.
LossForwardMaskFirst(a) ==
    LET mask == IF a.valid_mask.some THEN a.valid_mask.v
                ELSE DeriveMask(a.target, Eps)
    IN IF FEq(SumAll(mask), Num(0))
       THEN LossResult("", "", "early", mask, <<>>, NoValue,
                       Scalar(FMul(Num(0), SumAll(a.pred.v))))
       ELSE IF ~SameShape(a.pred.shape, a.target.shape)
       THEN LossResult("AssertionError", "shape", "assert", mask, <<>>,
                       NoValue, NoValue)
       ELSE LossResult("AssertionError", "reduction_override", "assert",
                       mask, <<>>, NoValue, NoValue)

\* CosineSimilarityLoss.forward
LossForward(a) ==
    IF ~SameShape(a.pred.shape, a.target.shape)
    THEN LossResult("AssertionError", "shape", "assert", <<>>, <<>>,
                    NoValue, NoValue)
    ELSE IF a.reduction_override \notin {"None", "none", "mean", "sum"}
    THEN LossResult("AssertionError", "reduction_override", "assert", <<>>,
                    <<>>, NoValue, NoValue)
    ELSE
    LET reduction == IF a.reduction_override # "None"
                     THEN a.reduction_override ELSE a.reduction
        mask == IF a.valid_mask.some THEN a.valid_mask.v
                ELSE DeriveMask(a.target, Eps)
    IN IF FEq(SumAll(mask), Num(0))
       THEN LossResult("", "", "early", mask, <<>>, NoValue,
                       Scalar(FMul(Num(0), SumAll(a.pred.v))))
       ELSE
       LET cos == CosSim(Normalize(a.pred, ThresEps),
                         Normalize(a.target, ThresEps))
           loss == PixelLoss(cos, mask)
       IN IF reduction \notin {"mean", "sum", "none"}
          THEN LossResult("ValueError", "reduction", "main", mask, loss,
                          NoValue, NoValue)
          ELSE
          LET reduced == CASE reduction = "mean" -> ReduceMean(loss, mask)
                           [] reduction = "sum" -> ReduceSum(loss)
                           [] OTHER -> PerPixel(loss)
          IN LossResult("", "", "main", mask, loss, reduced,
                        NanToNum(Scale(WeightReduceLoss(reduced, reduction),
                                       LossWeight)))

\* The enumerated calls of forward.  A position holds one of a few channel
\* vectors whose L2 norm is rational (or a special value).
PredVectors(C) ==
    IF C = 1 THEN {<<Num(-3)>>, <<Num(4)>>, <<NaN>>}
    ELSE {<<Num(-3), Num(4)>>, <<Num(4), Num(0)>>, <<NaN, Num(4)>>}

SpecialPredVectors(C) ==
    IF C = 1 THEN {<<Num(0)>>, <<PInf>>, <<NInf>>}
    ELSE {<<Num(0), Num(0)>>, <<Num(3), PInf>>, <<NInf, Num(0)>>}

TargetVectors(C) ==
    IF C = 1 THEN {<<Num(-100)>>, <<Num(3)>>, <<NaN>>}
    ELSE {<<Num(-100), Num(0)>>, <<Num(3), Num(4)>>, <<NaN, Num(0)>>}

SpecialTargetVectors(C) ==
    IF C = 1 THEN {<<Num(0)>>, <<Num(-101)>>}
    ELSE {<<Num(0), Num(-100)>>, <<Num(0), Num(0)>>}

ChannelCounts == {1, 2}
BatchSizes == {1, 2}

\* The tensor of shape s whose position p holds the channel vector f[p].
FromVectors(s, f) ==
    Tensor(s, [i \in 1..Numel(s) |->
                  LET hw == s[3] * s[4]
                      b0 == (i - 1) \div (s[2] * hw)
                      c == (((i - 1) \div hw) % s[2]) + 1
                      p == b0 * hw + ((i - 1) % hw) + 1
                  IN f[p][c]])

TensorsOf(s, vectors) ==
    {FromVectors(s, f) : f \in [1..Pixels(s) -> vectors]}

ConstantTensorsOf(s, vectors) ==
    {FromVectors(s, [p \in 1..Pixels(s) |-> x]) : x \in vectors}

Shapes == {<<1, c, 1, w>> : c \in ChannelCounts, w \in 1..MaxW}
SampleShapes ==
    {<<b, c, 1, w>> : b \in BatchSizes, c \in ChannelCounts, w \in 1..MaxW}

ExplicitMasksOf(s) ==
    {Some(m) : m \in [1..Pixels(s) -> {Num(0), Num(1)}]}

\* Reduction pairs (self.reduction, reduction_override) of the sampled calls.
ReductionPairs ==
    {<<"mean", "None">>, <<"mean", "sum">>, <<"sum", "none">>,
     <<"sum", "max">>, <<"max", "None">>, <<"none", "mean">>}

\* The call forward(pred, target, valid_mask, reduction_override=o) on a loss
\* object with self.reduction = r.
Call(pred, target, valid_mask, r, o) ==
    /\ lossCall' = LossArgs(pred, target, valid_mask, r, o)
    /\ lossOut' = LossForward(LossArgs(pred, target, valid_mask, r, o))
    /\ UNCHANGED <<head, seg, vitCall, vitOut>>

\* Calls with tensors of one shape: every tensor with the derived mask and
\* every reduction, and with every explicit mask under 'mean' and 'sum'.
CallMatched ==
    /\ ~lossCall.active
    /\ \E s \in Shapes :
         \E p \in TensorsOf(s, PredVectors(s[2])),
            t \in TensorsOf(s, TargetVectors(s[2])),
            m \in ({None} \X {"mean", "sum", "none"})
                     \cup (ExplicitMasksOf(s) \X {"mean", "sum"}) :
            Call(p, t, m[1], m[2], "None")

\* Calls with special values, reduction overrides and invalid reductions,
\* on tensors that hold one vector at every position.
CallSampled ==
    /\ ~lossCall.active
    /\ \E s \in SampleShapes :
         \E p \in ConstantTensorsOf(s, PredVectors(s[2])
                                          \cup SpecialPredVectors(s[2])),
            t \in ConstantTensorsOf(s, TargetVectors(s[2])
                                          \cup SpecialTargetVectors(s[2])),
            m \in {None, Some([q \in 1..Pixels(s) |-> Num(1)])},
            r \in ReductionPairs :
            Call(p, t, m, r[1], r[2])

\* Calls whose pred and target differ in shape.
CallMismatched ==
    /\ ~lossCall.active
    /\ \E s1 \in SampleShapes :
         \E s2 \in SampleShapes \ {s1} :
            \E p \in ConstantTensorsOf(s1, {<<Num(4), Num(0)>>,
                                            <<NaN, Num(4)>>}),
               t \in ConstantTensorsOf(s2, {<<Num(3), Num(4)>>,
                                            <<Num(-100), Num(0)>>}),
               r \in {<<"mean", "None">>, <<"sum", "max">>} :
               Call(p, t, None, r[1], r[2])

InitLoss ==
    /\ head = HeadNew
    /\ seg = SegIdle
    /\ lossCall = LossIdle
    /\ lossOut = LossIdle
    /\ vitCall = VitIdle
    /\ vitOut = VitIdle

NextLoss == CallMatched \/ CallSampled \/ CallMismatched

SpecLoss == InitLoss /\ [][NextLoss]_vars

(***************************************************************************)
(* CosineSimilarityLoss: properties                                        *)
(***************************************************************************)
Returned == lossOut.active /\ lossOut.raised = ""

AllFinite(x) ==
    IF x.kind = "scalar" THEN IsFinite(x.s)
    ELSE \A p \in 1..Len(x.t) : IsFinite(x.t[p])

\* C2: every value of the loss that forward returns is finite, on every
\* return path, the return for an all-zero valid mask included.
C2_ReturnedLossIsFinite == Returned => AllFinite(lossOut.value)

\* The same statement for the return at the end of forward alone (it holds
\* there: nan_to_num is applied).
C2_MainPathLossIsFinite ==
    (Returned /\ lossOut.path = "main") => AllFinite(lossOut.value)

\* C3: forward fails with the shape assertion exactly when pred.shape and
\* target.shape differ, and then no valid mask has been derived and no loss
\* value computed.
C3_ShapeAssertionFirst ==
    lossOut.active =>
        /\ (lossCall.pred.shape # lossCall.target.shape)
             <=> (lossOut.raised = "AssertionError" /\ lossOut.msg = "shape")
        /\ lossOut.msg = "shape" =>
             /\ lossOut.mask = <<>>
             /\ lossOut.pixel_loss = <<>>
             /\ lossOut.reduced = NoValue
             /\ lossOut.value = NoValue

\* C3 witness: the assertion fired for two tensors that hold the same
\* number of elements in different shapes, with an all-invalid target.
C3_Witness ==
    /\ lossOut.active
    /\ lossOut.raised = "AssertionError"
    /\ lossOut.msg = "shape"
    /\ Numel(lossCall.pred.shape) = Numel(lossCall.target.shape)
    /\ \A i \in 1..Len(lossCall.target.v) : ~FGt(lossCall.target.v[i], Eps)

EffectiveReduction ==
    IF lossCall.reduction_override # "None" THEN lossCall.reduction_override
    ELSE lossCall.reduction

ValidPositions ==
    SelectSeq([p \in 1..Len(lossOut.mask) |-> p],
              LAMBDA p : lossOut.mask[p] # Num(0))

\* 1 - cos_sim at every position, from the call's pred and target.
OneMinusCos ==
    LET cos == CosSim(Normalize(lossCall.pred, ThresEps),
                      Normalize(lossCall.target, ThresEps))
    IN [p \in 1..Len(cos) |-> FSub(Num(1), cos[p])]

\* C4: a position whose valid_mask entry is 0 contributes exactly 0 whatever
\* pred and target hold there; under 'sum' the result before weighting is
\* the sum of (1 - cos_sim) over the valid positions, and under 'mean' that
\* sum divided by the number of valid positions (at least 1).
C4_MaskedReduction ==
    (Returned /\ lossOut.path = "main") =>
        LET validSum == FSumSeq(OneMinusCos, ValidPositions)
        IN /\ \A p \in 1..Len(lossOut.mask) :
                lossOut.mask[p] = Num(0) => lossOut.pixel_loss[p] = Num(0)
           /\ EffectiveReduction = "sum" =>
                lossOut.reduced = Scalar(validSum)
           /\ EffectiveReduction = "mean" =>
                lossOut.reduced =
                    Scalar(FDiv(validSum, Num(Max(Len(ValidPositions), 1))))

\* The statement of C4 for calls whose pred and target are finite everywhere.
C4_MaskedReductionOfFiniteInputs ==
    (/\ lossCall.active
     /\ \A i \in 1..Len(lossCall.pred.v) : IsFinite(lossCall.pred.v[i])
     /\ \A i \in 1..Len(lossCall.target.v) : IsFinite(lossCall.target.v[i]))
        => C4_MaskedReduction

(***************************************************************************)
(* MILANViT and MILAN                                                      *)
(***************************************************************************)
\* Largest number L of patches of an enumerated image.
MaxL == 3

\* Ratios of masked patches, <<numerator, denominator>>; all are dyadic, so
\* L * (1 - mask_ratio) is computed without rounding in binary floating
\* point.
MaskRatios == {<<0, 1>>, <<1, 4>>, <<1, 2>>, <<3, 4>>, <<1, 1>>}

ImportanceWeights == {0, 1, 2}

\* Rows of importance used in the calls with two batch rows.
SampleRows(L) ==
    {[i \in 1..L |-> 1], [i \in 1..L |-> IF i = 1 THEN 0 ELSE 2]}

\* Numbers of transformer layers of the encoder.
LayerCounts == {0, 2}

\* len_keep = int(L * (1 - mask_ratio))
LenKeepOfMaskRatio(L, r) == (L * r[1]) \div r[2]

LenKeep(L, r) == (L * (r[2] - r[1])) \div r[2]

\* All orderings of the indices 0..L-1, as sequences.
Orderings(L) ==
    {s \in [1..L -> 0..(L - 1)] : \A i, j \in 1..L : i # j => s[i] # s[j]}

\* torch.multinomial(row, n, replacement=False): the inputs it rejects, and
\* the draws it can return.  A draw lists n distinct indices; an index of
\* weight 0 is drawn only after every index of positive weight.
MultinomialRejects(row, n) ==
    \/ \E i \in 1..Len(row) : row[i] < 0
    \/ \A i \in 1..Len(row) : row[i] = 0
    \/ n > Len(row)

MultinomialDraws(row, n) ==
    {SubSeq(s, 1, n) :
        s \in {o \in Orderings(Len(row)) :
                  \A i, j \in 1..Len(row) :
                     (i < j /\ row[o[j] + 1] > 0) => row[o[i] + 1] > 0}}

\* torch.argsort(s): position j holds the index of the j-th smallest entry
\* (ties by index).
ArgsortDescending(s) ==
    [j \in 1..Len(s) |->
        (CHOOSE i \in 1..Len(s) :
            Cardinality({k \in 1..Len(s) :
                            s[k] > s[i] \/ (s[k] = s[i] /\ k < i)}) = j - 1)
        - 1]

Argsort(s) ==
    [j \in 1..Len(s) |->
        (CHOOSE i \in 1..Len(s) :
            Cardinality({k \in 1..Len(s) :
                            s[k] < s[i] \/ (s[k] = s[i] /\ k < i)}) = j - 1)
        - 1]

\* torch.gather(t, dim=1, index=ids) on one batch row.
Gather(row, ids) == [j \in 1..Len(ids) |-> row[ids[j] + 1]]

VitArgs(op, x, mask_ratio, importance, layers) ==
    [active |-> TRUE, op |-> op, x |-> x, mask_ratio |-> mask_ratio,
     importance |-> importance, layers |-> layers]

VitResult(op, raised, branch, masked, x, ids_restore, ids_keep, ids_dump) ==
    [active |-> TRUE, op |-> op, raised |-> raised, branch |-> branch,
     masked |-> masked, x |-> x, ids_restore |-> ids_restore,
     ids_keep |-> ids_keep, ids_dump |-> ids_dump]

\* MILANViT.attention_masking(x, mask_ratio, importance), where ids_shuffle
\* is what torch.multinomial drew; x and importance hold one row per batch
\* element.  Returns <<x_masked, ids_restore, ids_keep, ids_dump>>.
AttentionMasking(x, mask_ratio, importance, ids_shuffle) ==
    LET N == Len(x)
        L == Len(x[1])
        len_keep == LenKeep(L, mask_ratio)
        ids_restore == [n \in 1..N |-> Argsort(ids_shuffle[n])]
        ids_keep == [n \in 1..N |-> SubSeq(ids_shuffle[n], 1, len_keep)]
        ids_dump == [n \in 1..N |-> SubSeq(ids_shuffle[n], len_keep + 1, L)]
        x_masked == [n \in 1..N |-> Gather(x[n], ids_keep[n])]
    IN <<x_masked, ids_restore, ids_keep, ids_dump>>

\* What torch.multinomial(noise, L, replacement=False) can return for a
\* batch of rows (line 91), one draw per row from row n on; the empty set
\* when it raises.
RECURSIVE RowDrawsFrom(_, _)
RowDrawsFrom(importance, n) ==
    IF n > Len(importance) THEN {<<>>}
    ELSE LET rest == RowDrawsFrom(importance, n + 1)
         IN {<<d>> \o t :
                d \in MultinomialDraws(importance[n], Len(importance[n])),
                t \in rest}

ShuffleDraws(importance) ==
    IF \E n \in 1..Len(importance) :
          MultinomialRejects(importance[n], Len(importance[n]))
    THEN {}
    ELSE RowDrawsFrom(importance, 1)

\* Tokens of the encoder: the patch a token comes from (-1: the class
\* token), the position embedding added to it, the number of transformer
\* layers it went through and whether the final norm was applied.
Token(patch, pos, layers, norm) ==
    [patch |-> patch, pos |-> pos, layers |-> layers, norm |-> norm]

\* self.patch_embed(x)[0] + self.pos_embed[:, 1:, :] for an image of L
\* patches
PatchEmbed(L) == [i \in 1..L |-> Token(i - 1, i, 0, FALSE)]

ClsToken == Token(-1, 0, 0, FALSE)

\* for layer in self.layers: x = layer(x); x = self.norm1(x)
Encode(row, layers) ==
    [j \in 1..Len(row) |-> Token(row[j].patch, row[j].pos, layers, TRUE)]

\* super(MAEViT, self).forward(x): the plain vision transformer, which
\* embeds every patch of the image and masks none.
ParentForward(c) ==
    VitResult("forward", "", "parent", FALSE,
              [n \in 1..Len(c.x) |->
                  Encode(<<ClsToken>> \o PatchEmbed(c.x[n]), c.layers)],
              <<>>, <<>>, <<>>)

\* The masking branch of MILANViT.forward (lines 146-165).
MaskedForwardNoCls(c, ids_shuffle) ==
    LET x == [n \in 1..Len(c.x) |-> PatchEmbed(c.x[n])]
        m == AttentionMasking(x, c.mask_ratio, c.importance.v, ids_shuffle)
    IN VitResult("forward", "", "masking", TRUE,
                 [n \in 1..Len(c.x) |-> Encode(m[1][n], c.layers)],
                 m[2], m[3], m[4])

MaskedForward(c, ids_shuffle) ==
    LET x == [n \in 1..Len(c.x) |-> PatchEmbed(c.x[n])]
        m == AttentionMasking(x, c.mask_ratio, c.importance.v, ids_shuffle)
    IN VitResult("forward", "", "masking", TRUE,
                 [n \in 1..Len(c.x) |->
                     Encode(<<ClsToken>> \o m[1][n], c.layers)],
                 m[2], m[3], m[4])

\* MILANViT.forward as its docstring describes it: masking when importance
\* is None, the parent's forward when it is a tensor.
MilanForwardAsDocumented(c, ids_shuffle) ==
    IF ~c.importance.some
    THEN MaskedForward([c EXCEPT !.importance =
                           Some([n \in 1..Len(c.x) |->
                                    [i \in 1..c.x[n] |-> 1]])],
                       [n \in 1..Len(c.x) |-> [i \in 1..c.x[n] |-> i - 1]])
    ELSE ParentForward(c)

\* MILANViT.forward(x, importance); c.x holds the number of patches of each
\* image of the batch.
MilanForward(c, ids_shuffle) ==
    IF ~c.importance.some
    THEN ParentForward(c)
    ELSE MaskedForward(c, ids_shuffle)

VitRaised(op) ==
    VitResult(op, "RuntimeError", "", FALSE, <<>>, <<>>, <<>>, <<>>)

\* Patch features given to attention_masking directly: B x L x D with
\* D = 2, all rows distinct, or all rows equal.
DistinctPatches(N, L) ==
    [n \in 1..N |-> [i \in 1..L |-> <<10 * n + i, 100 * n + i>>]]
EqualPatches(N, L) == [n \in 1..N |-> [i \in 1..L |-> <<7, 7>>]]

\* The call attention_masking(x, mask_ratio, importance): it raises where
\* torch.multinomial does, and else returns for one of the possible draws.
MaskingCall(x, r, importance) ==
    /\ vitCall' = VitArgs("attention_masking", x, r, Some(importance), 0)
    /\ LET draws == ShuffleDraws(importance)
       IN IF draws = {}
          THEN vitOut' = VitRaised("attention_masking")
          ELSE \E s \in draws :
                  LET m == AttentionMasking(x, r, importance, s)
                  IN vitOut' = VitResult("attention_masking", "", "masking",
                                         TRUE, m[1], m[2], m[3], m[4])
    /\ UNCHANGED <<head, seg, lossCall, lossOut>>

\* attention_masking on one batch row, for every importance row.
MaskRow ==
    /\ ~vitCall.active
    /\ \E L \in 1..MaxL :
         \E w \in [1..L -> ImportanceWeights], r \in MaskRatios,
            x \in {DistinctPatches(1, L), EqualPatches(1, L)} :
            MaskingCall(x, r, <<w>>)

\* attention_masking on two batch rows.
MaskBatch ==
    /\ ~vitCall.active
    /\ \E L \in 1..MaxL :
         \E w1 \in SampleRows(L), w2 \in SampleRows(L), r \in MaskRatios :
            MaskingCall(DistinctPatches(2, L), r, <<w1, w2>>)

\* The call MILANViT.forward(x, importance) on a batch of N images of L
\* patches each.
ForwardCall(N, L, r, importance, layers) ==
    LET c == VitArgs("forward", [n \in 1..N |-> L], r, importance, layers)
    IN /\ vitCall' = c
       /\ IF ~importance.some
          THEN vitOut' = MilanForward(c, <<>>)
          ELSE LET draws == ShuffleDraws(importance.v)
               IN IF draws = {}
                  THEN vitOut' = VitRaised("forward")
                  ELSE \E s \in draws : vitOut' = MilanForward(c, s)
       /\ UNCHANGED <<head, seg, lossCall, lossOut>>

\* MILAN.extract_feat: self.backbone(inputs, importance=None)
ExtractFeat ==
    /\ ~vitCall.active
    /\ \E N \in BatchSizes, L \in 1..MaxL, r \in MaskRatios,
          layers \in LayerCounts :
          ForwardCall(N, L, r, None, layers)

\* MILAN.loss: self.backbone(inputs, importance) with the importance of
\* the target generator.
LossBackbone ==
    /\ ~vitCall.active
    /\ \E N \in BatchSizes, L \in 1..MaxL, r \in MaskRatios,
          layers \in LayerCounts :
          \E imp \in [1..N -> SampleRows(L) \cup {[i \in 1..L |-> 0]}] :
             ForwardCall(N, L, r, Some(imp), layers)

InitMilan ==
    /\ head = HeadNew
    /\ seg = SegIdle
    /\ lossCall = LossIdle
    /\ lossOut = LossIdle
    /\ vitCall = VitIdle
    /\ vitOut = VitIdle

NextMilan == MaskRow \/ MaskBatch \/ ExtractFeat \/ LossBackbone

SpecMilan == InitMilan /\ [][NextMilan]_vars

(***************************************************************************)
(* MILANViT: properties                                                    *)
(***************************************************************************)
MaskingReturned ==
    vitOut.active /\ vitOut.op = "attention_masking" /\ vitOut.raised = ""

ForwardReturned ==
    vitOut.active /\ vitOut.op = "forward" /\ vitOut.raised = ""

Range(s) == {s[i] : i \in 1..Len(s)}

\* floor(L * (1 - mask_ratio)) for mask_ratio = r[1] / r[2]: the largest
\* integer k with k * r[2] <= L * (r[2] - r[1]).
FloorKept(L, r) ==
    CHOOSE k \in 0..L :
        k * r[2] <= L * (r[2] - r[1]) /\ (k + 1) * r[2] > L * (r[2] - r[1])

\* C5: for every batch row ids_keep and ids_dump partition {0..L-1} (no
\* common index, no repeated index, every index once), ids_keep has
\* floor(L * (1 - mask_ratio)) entries and ids_dump the other L - that
\* many; x_masked holds, in order, the rows of x at the indices of ids_keep.
C5_KeepDumpPartition ==
    MaskingReturned =>
        \A n \in 1..Len(vitCall.x) :
            LET L == Len(vitCall.x[n])
                keep == vitOut.ids_keep[n]
                dump == vitOut.ids_dump[n]
            IN /\ Range(keep) \cap Range(dump) = {}
               /\ Cardinality(Range(keep)) = Len(keep)
               /\ Cardinality(Range(dump)) = Len(dump)
               /\ Range(keep) \cup Range(dump) = 0..(L - 1)
               /\ Len(keep) = FloorKept(L, vitCall.mask_ratio)
               /\ Len(dump) = L - FloorKept(L, vitCall.mask_ratio)
               /\ Len(vitOut.x[n]) = Len(keep)
               /\ \A j \in 1..Len(keep) :
                     vitOut.x[n][j] = vitCall.x[n][keep[j] + 1]

\* C5 witness: two batch rows of three distinct patches, of which each row
\* keeps two and removes one, and the rows keep different patches in an
\* order that is not ascending.
C5_Witness ==
    /\ MaskingReturned
    /\ Len(vitCall.x) = 2
    /\ Len(vitCall.x[1]) = 3
    /\ Len(vitOut.ids_keep[1]) = 2
    /\ Len(vitOut.ids_dump[1]) = 1
    /\ vitOut.ids_keep[1] # vitOut.ids_keep[2]
    /\ vitOut.ids_keep[1][1] > vitOut.ids_keep[1][2]

\* C6: for every batch row, gathering (ids_keep followed by ids_dump) at the
\* positions ids_restore yields 0, 1, ..., L-1.
C6_RestoreInvertsShuffle ==
    (vitOut.active /\ vitOut.raised = "" /\ vitOut.masked) =>
        \A n \in 1..Len(vitOut.ids_restore) :
            LET shuffled == vitOut.ids_keep[n] \o vitOut.ids_dump[n]
                L == Len(vitOut.ids_restore[n])
            IN /\ Len(shuffled) = L
               /\ L = (IF vitCall.op = "forward" THEN vitCall.x[n]
                       ELSE Len(vitCall.x[n]))
               /\ Gather(shuffled, vitOut.ids_restore[n])
                    = [i \in 1..L |-> i - 1]

\* C6 witness: a draw that is not its own inverse (a cycle of three
\* patches), split into kept and removed patches.
C6_Witness ==
    /\ vitOut.active
    /\ vitOut.raised = ""
    /\ vitOut.masked
    /\ vitOut.ids_keep[1] # <<>>
    /\ vitOut.ids_dump[1] # <<>>
    /\ vitOut.ids_restore[1] # vitOut.ids_keep[1] \o vitOut.ids_dump[1]

PatchesOf(row) == {row[j].patch : j \in 1..Len(row)} \ {-1}

====
